---- MODULE Spec2Model ----
(***************************************************************************)
(* Authentication and session-token lifecycle of the auth service:         *)
(* AuthController -> AuthService -> AuthRepository, with jsonwebtoken and  *)
(* bcrypt modelled by what they compute.  Every await of a handler is one  *)
(* step, so several requests interleave at their awaits as they do on the  *)
(* event loop.  Time is the clock in whole seconds, as jsonwebtoken reads  *)
(* it (floor(Date.now() / 1000)).                                          *)
(***************************************************************************)
EXTENDS Integers, Sequences, FiniteSets, TLC

\* ---------------------------------------------------------------- bounds

\* number of requests the clients send in one behaviour
MaxCalls == 3

\* ------------------------------------------------------ program constants

\* expiresIn: '1h' of the access token, in seconds
AccessTTL == 3600
\* expiresIn: '7d' of the refresh token, in seconds
RefreshTTL == 604800
\* config.bcrypt.saltRounds
saltRounds == 12

\* the request slots: two requests may be in flight at once
Procs == {"r1", "r2"}

\* ------------------------------------------------------------------ inputs

\* An email address as the request carries it: the text before the "@", whether
\* an "@" is present, and the text after it.
Alice == [local |-> "alice", at |-> TRUE, domain |-> "example.com"]
Bob == [local |-> "bob", at |-> TRUE, domain |-> "example.com"]
NotAnEmail == [local |-> "alice", at |-> FALSE, domain |-> ""]
Emails == {Alice, Bob, NotAnEmail}

\* A password is its sequence of characters.
Password1 == <<"P", "a", "s", "s", "w", "o", "r", "d", "1">>
\* no upper-case letter: registerSchema rejects it, loginSchema takes it
Lowercase1 == <<"p", "a", "s", "s", "w", "o", "r", "d", "1">>
\* the empty password, which both schemas reject
NoPassword == <<>>
Passwords == {Password1, Lowercase1, NoPassword}

LowerCase == {"a", "d", "o", "p", "r", "s", "w"}
UpperCase == {"P"}
Digits == {"1"}

\* z.string().email(): a non-empty local part, an "@", a non-empty domain
IsEmail(email) == email.at /\ email.local # "" /\ email.domain # ""

\* registerSchema: a valid email, and a password of at least 8 characters with
\* a lower-case letter, an upper-case letter and a digit
registerSchema(email, password) ==
    /\ IsEmail(email)
    /\ Len(password) >= 8
    /\ \E i \in 1..Len(password) : password[i] \in LowerCase
    /\ \E i \in 1..Len(password) : password[i] \in UpperCase
    /\ \E i \in 1..Len(password) : password[i] \in Digits

\* loginSchema: a valid email and a non-empty password
loginSchema(email, password) == IsEmail(email) /\ Len(password) >= 1

\* ------------------------------------------------------------------ bcrypt

\* bcrypt.hash(password, rounds) with the salt it drew: the digest is a one-way
\* image of (password, salt, rounds), written as the triple it is computed from.
BcryptHash(password, rounds, salt) ==
    [alg |-> "bcrypt", rounds |-> rounds, salt |-> salt, digest |-> <<"H", password>>]

\* bcrypt.compare(password, hash): hash the candidate with the stored salt and
\* cost, and compare
BcryptCompare(password, hash) ==
    BcryptHash(password, hash.rounds, hash.salt) = hash

\* a password column that holds the characters of the password itself: no
\* algorithm, no cost, no salt
PlainPassword(password) ==
    [alg |-> "", rounds |-> 0, salt |-> "", digest |-> <<"", password>>]

\* ------------------------------------------------------------ jsonwebtoken

\* A token string.  A JWT is determined by its payload and the secret that
\* signed it (HS256 is deterministic), so equal records are equal strings.
\* role is "" in a payload that carries no role.
Jwt(userId, role, iat, exp, secret) ==
    [str |-> "jwt", userId |-> userId, role |-> role, iat |-> iat, exp |-> exp,
     sig |-> secret]
\* the empty string
EmptyToken == [str |-> "", userId |-> 0, role |-> "", iat |-> 0, exp |-> 0, sig |-> ""]
\* a non-empty string that is no JWT
GarbageToken ==
    [str |-> "garbage", userId |-> 0, role |-> "", iat |-> 0, exp |-> 0, sig |-> ""]

\* a word that is no JWT and has no space in it, such as an authorization scheme
Word(text) ==
    [str |-> text, userId |-> 0, role |-> "", iat |-> 0, exp |-> 0, sig |-> ""]
Bearer == Word("Bearer")
Basic == Word("Basic")

\* jwt.sign(payload, secret, {expiresIn}) at clock time t: iat = t, exp = t + ttl
JwtSign(userId, role, secret, ttl, t) == Jwt(userId, role, t, t + ttl, secret)

\* jwt.verify as it would be if a token were still good at its exp
JwtVerifiesInclusive(token, secret, t) ==
    /\ token.str = "jwt"
    /\ token.sig = secret
    /\ t <= token.exp

\* jwt.verify(token, secret) at clock time t does not throw: the string is a JWT,
\* its signature is the secret's, and t < exp (jsonwebtoken rejects t >= exp)
JwtVerifies(token, secret, t) ==
    /\ token.str = "jwt"
    /\ token.sig = secret
    /\ t < token.exp

\* the payload jwt.verify returns
JwtPayload(token) == [userId |-> token.userId, role |-> token.role]

\* ------------------------------------------------------------------ types

NoEmail == [local |-> "", at |-> FALSE, domain |-> ""]
NoHash == [alg |-> "", rounds |-> 0, salt |-> "", digest |-> <<"", <<>>>>]
\* null, where the code holds a User | null
NoUser == [id |-> 0, email |-> NoEmail, password |-> NoHash, role |-> "", createdAt |-> 0]
\* no user object in a response
NoUserResponse == [id |-> 0, email |-> NoEmail, role |-> "", createdAt |-> 0]
\* no tokens in a response
NoTokens == [accessToken |-> EmptyToken, refreshToken |-> EmptyToken]

\* request.user where no hook has set it (undefined)
NoIdentity == [userId |-> 0, role |-> ""]

\* request.headers.authorization: whether the header was sent, and its value as
\* the words between its single spaces (a string and the list split(' ') makes
\* of it determine each other); the empty string is the one word ""
Header(words) == [present |-> TRUE, words |-> words]
NoHeader == [present |-> FALSE, words |-> <<>>]

\* class ValidationError extends AuthError
ValidationError(message) ==
    [cls |-> "AuthError", code |-> "VALIDATION_ERROR", message |-> message,
     statusCode |-> 400]
\* class UnauthorizedError extends AuthError
UnauthorizedError(message) ==
    [cls |-> "AuthError", code |-> "UNAUTHORIZED", message |-> message,
     statusCode |-> 401]
\* the error registerSchema.parse / loginSchema.parse / refreshTokenSchema.parse throws
ZodError == [cls |-> "ZodError", code |-> "", message |-> "", statusCode |-> 0]
\* the error a prisma call throws when the database fails it (none of AuthError)
PrismaClientError ==
    [cls |-> "PrismaClientUnknownRequestError", code |-> "", message |-> "",
     statusCode |-> 0]
\* the error prisma's create throws on a unique constraint (none of AuthError)
PrismaUniqueError ==
    [cls |-> "PrismaClientKnownRequestError", code |-> "P2002", message |-> "",
     statusCode |-> 0]

\* ------------------------------------------------------------------ state

VARIABLES
    server,             \* the process: "starting", "listening" once server.listen
                        \* was called, "exited" after process.exit(1)
    jwtSecret,          \* config.jwtSecret ("" is undefined)
    jwtRefreshSecret,   \* config.jwtRefreshSecret
    now,                \* the clock, in seconds
    users,              \* the User table
    refreshTokens,      \* the RefreshToken table: rows {token, userId}
    req,                \* per request slot: where its handler stands, and its locals
    calls,              \* how many requests were sent
    out,                \* the response the last step sent, NoReply if it sent none
    last,               \* the request that response answers, NoRequest with NoReply;
                        \* the request the hooks ran on, where the last step ran hooks
    issued,             \* history: the token pairs register and login returned
    revoked,            \* history: the token strings a logout deleted from the table
    requestUser,        \* request.user as the hooks of the last step left it
    unfinished          \* history: the ids of the users whose register failed
                        \* after its createUser

vars ==
    <<server, jwtSecret, jwtRefreshSecret, now, users, refreshTokens, req, calls, out,
      last, issued, revoked, requestUser, unfinished>>

Idle ==
    [pc |-> "idle", email |-> NoEmail, password |-> <<>>, token |-> EmptyToken,
     hashed |-> NoHash, user |-> NoUser, tokens |-> NoTokens, decoded |-> 0]

\* a request as the client sent it
Request(op, email, password, token) ==
    [op |-> op, email |-> email, password |-> password, token |-> token]
NoRequest == Request("", NoEmail, <<>>, EmptyToken)

NoReply ==
    [op |-> "", status |-> 0, success |-> FALSE, message |-> "", code |-> "",
     user |-> NoUserResponse, tokens |-> NoTokens]

\* reply.code(status).send({success: true, message, data})
ReplyOk(op, status, message, user, tokens) ==
    [op |-> op, status |-> status, success |-> TRUE, message |-> message, code |-> "",
     user |-> user, tokens |-> tokens]

\* AuthController.handleError
handleError(op, error) ==
    IF error.cls = "ZodError"
    THEN [op |-> op, status |-> 400, success |-> FALSE,
          message |-> "Datos de entrada invalidos", code |-> "",
          user |-> NoUserResponse, tokens |-> NoTokens]
    ELSE IF error.cls = "AuthError"
    THEN [op |-> op, status |-> error.statusCode, success |-> FALSE,
          message |-> error.message, code |-> error.code,
          user |-> NoUserResponse, tokens |-> NoTokens]
    ELSE [op |-> op, status |-> 500, success |-> FALSE,
          message |-> "Error interno del servidor", code |-> "",
          user |-> NoUserResponse, tokens |-> NoTokens]

\* ------------------------------------------------------------ AuthRepository

\* emailExists as it would be if it never found a row
emailExistsNever(email) == FALSE

\* emailExists: prisma.user.findUnique({where: {email}}) found a row
emailExists(email) == \E u \in users : u.email = email

\* findUserByEmail: the row, or null
findUserByEmail(email) ==
    IF \E u \in users : u.email = email
    THEN CHOOSE u \in users : u.email = email
    ELSE NoUser

\* findUserById: the row, or null
findUserById(id) ==
    IF \E u \in users : u.id = id
    THEN CHOOSE u \in users : u.id = id
    ELSE NoUser

\* the id the store gives a new row: one no row has had
NextUserId == Cardinality(users) + 1

\* createUser as it would be if it created administrators
createUserAsAdmin(email, hashedPassword) ==
    [id |-> NextUserId, email |-> email, password |-> hashedPassword, role |-> "ADMIN",
     createdAt |-> now]

\* createUser: the row prisma.user.create inserts, role 'USER'
createUser(email, hashedPassword) ==
    [id |-> NextUserId, email |-> email, password |-> hashedPassword, role |-> "USER",
     createdAt |-> now]

\* the User table as it would be without the uniqueness constraint on email
EmailTakenNever(email) == FALSE

\* the store's uniqueness constraint on User.email rejects the insert
EmailTaken(email) == \E u \in users : u.email = email

\* the store's uniqueness constraint on RefreshToken.token rejects the insert
TokenTaken(token) == \E r \in refreshTokens : r.token = token

\* createRefreshToken as it would be if it took the owner from another row
createRefreshTokenOfOther(token, userId) ==
    refreshTokens \cup {[token |-> token, userId |-> userId + 1]}

\* createRefreshToken as it would be if a user had one session at a time
createRefreshTokenSingleSession(token, userId) ==
    {r \in refreshTokens : r.userId # userId} \cup {[token |-> token, userId |-> userId]}

\* createRefreshToken: the table after prisma.refreshToken.create
createRefreshToken(token, userId) ==
    refreshTokens \cup {[token |-> token, userId |-> userId]}

\* findRefreshToken: the userIds of the rows findFirst can return ({} is null)
findRefreshToken(token) == {r.userId : r \in {x \in refreshTokens : x.token = token}}

\* deleteRefreshToken as it would be if its where clause matched no row
deleteRefreshTokenOfNone(token) == refreshTokens

\* deleteRefreshToken: the table after prisma.refreshToken.deleteMany({where: {token}})
deleteRefreshToken(token) == {r \in refreshTokens : r.token # token}

\* --------------------------------------------------------------- AuthService

\* generateAccessToken: jwt.sign({userId, role}, config.jwtSecret, {expiresIn: '1h'})
generateAccessToken(userId, role) == JwtSign(userId, role, jwtSecret, AccessTTL, now)

\* generateRefreshToken: jwt.sign({userId}, config.jwtRefreshSecret, {expiresIn: '7d'})
generateRefreshToken(userId) == JwtSign(userId, "", jwtRefreshSecret, RefreshTTL, now)

\* generateTokens
generateTokens(userId, role) ==
    [accessToken |-> generateAccessToken(userId, role),
     refreshToken |-> generateRefreshToken(userId)]

\* verifyAccessToken as it would be if it asked the store for a session of the user
verifyAccessTokenWithSession(token) ==
    /\ JwtVerifies(token, jwtSecret, now)
    /\ \E r \in refreshTokens : r.userId = token.userId

\* verifyAccessToken does not throw: jwt.verify(token, config.jwtSecret)
verifyAccessToken(token) == JwtVerifies(token, jwtSecret, now)

\* verifyAccessToken: the payload it returns, or the error it throws
verifyAccessTokenOutcome(token) ==
    IF verifyAccessToken(token)
    THEN JwtPayload(token)
    ELSE UnauthorizedError("Token invalido")

\* formatUserResponse as it would be if it returned the row as it is
formatUserResponseWithPassword(user) == user

\* formatUserResponse
formatUserResponse(user) ==
    [id |-> user.id, email |-> user.email, role |-> user.role,
     createdAt |-> user.createdAt]

\* register, line 53: the error thrown on a registered email
RegisterDuplicateError == ValidationError("El email ya esta registrado")

\* the error of line 88 as it would be if it named its cause
LoginNoUserErrorLeaky == UnauthorizedError("Usuario no encontrado")

\* login, line 88: the error thrown when no user has the email
LoginNoUserError == UnauthorizedError("Credenciales invalidas")

\* login, line 94: the error thrown when the password does not match
LoginBadPasswordError == UnauthorizedError("Credenciales invalidas")

\* the jwt.verify of line 122 as it would be with {ignoreExpiration: true}
RefreshTokenVerifiesIgnoringExpiry(token) ==
    token.str = "jwt" /\ token.sig = jwtRefreshSecret

\* refreshToken, line 122: jwt.verify(refreshToken, config.jwtRefreshSecret) succeeds
RefreshTokenVerifies(token) == JwtVerifies(token, jwtRefreshSecret, now)

\* the check of line 126 as it would be without its !storedToken
StoredTokenMatchesIfFound(stored, decodedUserId) ==
    \A owner \in stored : owner = decodedUserId

\* refreshToken, line 126: the stored token exists and its owner is the decoded userId
StoredTokenMatches(stored, decodedUserId) ==
    stored # {} /\ \A owner \in stored : owner = decodedUserId

\* ------------------------------------------------------------ AuthMiddleware

\* the body a hook sends: {success: false, message}
HookReply(status, message) ==
    [op |-> "", status |-> status, success |-> FALSE, message |-> message,
     code |-> "", user |-> NoUserResponse, tokens |-> NoTokens]

\* !authHeader: the header is absent or the empty string
HeaderMissing(header) == ~header.present \/ header.words = <<EmptyToken>>

\* authHeader.split(' ')[1]: the second word; undefined, where there is none, is
\* written as the empty string, which !token takes for the same
ExtractToken(header) ==
    IF Len(header.words) >= 2 THEN header.words[2] ELSE EmptyToken

\* verifyToken: the response it sends (NoReply if none) and request.user after it
verifyToken(header) ==
    IF HeaderMissing(header)
    THEN [reply |-> HookReply(401, "Token de acceso requerido"), user |-> NoIdentity]
    ELSE IF ExtractToken(header).str = ""
    THEN [reply |-> HookReply(401, "Formato de token invalido"), user |-> NoIdentity]
    ELSE IF ~verifyAccessToken(ExtractToken(header))
    THEN [reply |-> HookReply(401, "Token invalido o expirado"), user |-> NoIdentity]
    ELSE [reply |-> NoReply, user |-> JwtPayload(ExtractToken(header))]

\* verifyAdmin as it would be if it asked for an identity and not for its role
verifyAdminAnyRole(user) ==
    IF user = NoIdentity
    THEN HookReply(403, "Acceso denegado. Se requieren permisos de administrador")
    ELSE NoReply

\* verifyAdmin: the response it sends (NoReply if none)
verifyAdmin(user) ==
    IF user = NoIdentity \/ user.role # "ADMIN"
    THEN HookReply(403, "Acceso denegado. Se requieren permisos de administrador")
    ELSE NoReply

\* optionalAuth as it would be if its catch answered as verifyToken's does
optionalAuthBlocking(header) ==
    IF HeaderMissing(header) \/ ExtractToken(header).str = ""
    THEN [reply |-> NoReply, user |-> NoIdentity]
    ELSE verifyToken(header)

\* optionalAuth: it sends no response; request.user after it
optionalAuth(header) ==
    IF /\ ~HeaderMissing(header)
       /\ ExtractToken(header).str # ""
       /\ verifyAccessToken(ExtractToken(header))
    THEN [reply |-> NoReply, user |-> JwtPayload(ExtractToken(header))]
    ELSE [reply |-> NoReply, user |-> NoIdentity]

\* ---------------------------------------------------------------- requests

\* the instants of the clock at which steps are taken: the start, a second later,
\* an access-token lifetime later, a refresh-token lifetime later
Instants == {0, 1, AccessTTL, RefreshTTL}

\* the salt bcrypt.hash draws
Salts == {"salt"}

\* the token strings a client may send: those it was given, the empty string, a
\* string that is no JWT, a JWT signed with a key that is not the server's, and a
\* JWT with the server's refresh signature that the server did not hand out
TokenInputs ==
    {t.refreshToken : t \in issued} \cup {t.accessToken : t \in issued}
        \cup {EmptyToken, GarbageToken,
              Jwt(1, "", now, now + RefreshTTL, "attacker-secret"),
              Jwt(1, "", now, now + RefreshTTL, jwtRefreshSecret)}

\* the Authorization headers a client may send: none, the empty string, a bare
\* scheme, "Bearer" before a string that is no JWT, before an ADMIN token signed
\* with a key that is not the server's, before an access token of the server's
\* that this store did not hand out (its user may not exist) and before each
\* token the client was given, and an access token it was given after another
\* scheme, with no scheme, and before a further word
HeaderInputs ==
    {NoHeader, Header(<<EmptyToken>>), Header(<<Bearer>>),
     Header(<<Bearer, GarbageToken>>),
     Header(<<Bearer, Jwt(1, "ADMIN", now, now + AccessTTL, "attacker-secret")>>),
     Header(<<Bearer, Jwt(1, "USER", now, now + AccessTTL, jwtSecret)>>)}
        \cup UNION {{Header(<<Bearer, t.accessToken>>),
                     Header(<<Bearer, t.refreshToken>>),
                     Header(<<Basic, t.accessToken>>),
                     Header(<<t.accessToken>>),
                     Header(<<Bearer, t.accessToken, GarbageToken>>)} : t \in issued}

\* a request that carries nothing but its Authorization header
HeaderRequest(op, header) ==
    [op |-> op, email |-> NoEmail, password |-> <<>>, token |-> EmptyToken,
     header |-> header]

\* refreshTokenSchema: a non-empty string
refreshTokenSchema(token) == token.str # ""

\* the handler of slot p returns: the response is sent and the slot is free
Finish(p, request, reply) ==
    /\ req' = [req EXCEPT ![p] = Idle]
    /\ out' = reply
    /\ last' = request
    /\ requestUser' = NoIdentity

\* the handler of slot p goes on to its next await
Goto(p, r) ==
    /\ req' = [req EXCEPT ![p] = r]
    /\ out' = NoReply
    /\ last' = NoRequest
    /\ requestUser' = NoIdentity

\* a client sends a request, which the free slot p takes
Accept(p) ==
    /\ server = "listening"
    /\ req[p].pc = "idle"
    /\ calls < MaxCalls
    /\ calls' = calls + 1

\* the request slot p is handling
RequestOf(op, p) == Request(op, req[p].email, req[p].password, req[p].token)

\* ----------------------------------------------------------------- register

\* AuthController.register: registerSchema.parse; AuthService.register: await
\* emailExists, and the throw on a registered email
Register(p, email, password) ==
    /\ Accept(p)
    /\ IF ~registerSchema(email, password)
       THEN Finish(p, Request("register", email, password, EmptyToken),
                   handleError("register", ZodError))
       ELSE IF emailExists(email)
       THEN Finish(p, Request("register", email, password, EmptyToken),
                   handleError("register", RegisterDuplicateError))
       ELSE Goto(p, [Idle EXCEPT !.pc = "register_hash", !.email = email,
                                 !.password = password])
    /\ UNCHANGED <<unfinished, server, jwtSecret, jwtRefreshSecret, now, users, refreshTokens,
                   issued, revoked>>

\* AuthService.register: await bcrypt.hash(password, config.bcrypt.saltRounds)
RegisterHash(p) ==
    /\ req[p].pc = "register_hash"
    /\ \E salt \in Salts :
          Goto(p, [req[p] EXCEPT !.pc = "register_createUser",
                                 !.hashed = BcryptHash(req[p].password, saltRounds, salt)])
    /\ UNCHANGED <<unfinished, server, jwtSecret, jwtRefreshSecret, now, users, refreshTokens,
                   calls, issued, revoked>>

\* AuthService.register: await createUser, then generateTokens
RegisterCreateUser(p) ==
    /\ req[p].pc = "register_createUser"
    /\ IF EmailTaken(req[p].email)
       THEN /\ Finish(p, RequestOf("register", p),
                       handleError("register", PrismaUniqueError))
            /\ UNCHANGED users
       ELSE LET user == createUser(req[p].email, req[p].hashed)
            IN /\ users' = users \cup {user}
               /\ Goto(p, [req[p] EXCEPT !.pc = "register_createRefreshToken",
                                         !.user = user,
                                         !.tokens = generateTokens(user.id, user.role)])
    /\ UNCHANGED <<unfinished, server, jwtSecret, jwtRefreshSecret, now, refreshTokens, calls,
                   issued, revoked>>

\* AuthService.register: await createRefreshToken, then the 201 response
RegisterCreateRefreshToken(p) ==
    /\ req[p].pc = "register_createRefreshToken"
    /\ IF TokenTaken(req[p].tokens.refreshToken)
       THEN /\ Finish(p, RequestOf("register", p),
                       handleError("register", PrismaUniqueError))
            /\ UNCHANGED <<refreshTokens, issued>>
       ELSE /\ refreshTokens' =
                  createRefreshToken(req[p].tokens.refreshToken, req[p].user.id)
            /\ issued' = issued \cup {req[p].tokens}
            /\ Finish(p, RequestOf("register", p),
                      ReplyOk("register", 201, "Usuario registrado exitosamente",
                              formatUserResponse(req[p].user), req[p].tokens))
    /\ UNCHANGED <<unfinished, server, jwtSecret, jwtRefreshSecret, now, users, calls, revoked>>

\* AuthService.register: await createRefreshToken throws, the database having
\* failed the insert, and the error goes to handleError
RegisterCreateRefreshTokenFails(p) ==
    /\ req[p].pc = "register_createRefreshToken"
    /\ unfinished' = unfinished \cup {req[p].user.id}
    /\ Finish(p, RequestOf("register", p), handleError("register", PrismaClientError))
    /\ UNCHANGED <<server, jwtSecret, jwtRefreshSecret, now, users, refreshTokens,
                   calls, issued, revoked>>

\* -------------------------------------------------------------------- login

\* AuthController.login: loginSchema.parse; AuthService.login: await
\* findUserByEmail, and the throw on no user
Login(p, email, password) ==
    /\ Accept(p)
    /\ IF ~loginSchema(email, password)
       THEN Finish(p, Request("login", email, password, EmptyToken),
                   handleError("login", ZodError))
       ELSE IF findUserByEmail(email) = NoUser
       THEN Finish(p, Request("login", email, password, EmptyToken),
                   handleError("login", LoginNoUserError))
       ELSE Goto(p, [Idle EXCEPT !.pc = "login_compare", !.email = email,
                                 !.password = password,
                                 !.user = findUserByEmail(email)])
    /\ UNCHANGED <<unfinished, server, jwtSecret, jwtRefreshSecret, now, users, refreshTokens,
                   issued, revoked>>

\* AuthService.login: await bcrypt.compare, the throw on a mismatch, generateTokens
LoginCompare(p) ==
    /\ req[p].pc = "login_compare"
    /\ IF ~BcryptCompare(req[p].password, req[p].user.password)
       THEN Finish(p, RequestOf("login", p),
                   handleError("login", LoginBadPasswordError))
       ELSE Goto(p, [req[p] EXCEPT !.pc = "login_createRefreshToken",
                        !.tokens = generateTokens(req[p].user.id, req[p].user.role)])
    /\ UNCHANGED <<unfinished, server, jwtSecret, jwtRefreshSecret, now, users, refreshTokens,
                   calls, issued, revoked>>

\* AuthService.login: await createRefreshToken, then the 200 response
LoginCreateRefreshToken(p) ==
    /\ req[p].pc = "login_createRefreshToken"
    /\ IF TokenTaken(req[p].tokens.refreshToken)
       THEN /\ Finish(p, RequestOf("login", p),
                       handleError("login", PrismaUniqueError))
            /\ UNCHANGED <<refreshTokens, issued>>
       ELSE /\ refreshTokens' =
                  createRefreshToken(req[p].tokens.refreshToken, req[p].user.id)
            /\ issued' = issued \cup {req[p].tokens}
            /\ Finish(p, RequestOf("login", p),
                      ReplyOk("login", 200, "Login exitoso",
                              formatUserResponse(req[p].user), req[p].tokens))
    /\ UNCHANGED <<unfinished, server, jwtSecret, jwtRefreshSecret, now, users, calls, revoked>>

\* ------------------------------------------------------------------ refresh

\* AuthController.refreshToken: refreshTokenSchema.parse; AuthService.refreshToken:
\* jwt.verify, whose JsonWebTokenError (TokenExpiredError is one) the catch turns
\* into UnauthorizedError, await findRefreshToken, and the throw on no or a
\* foreign stored token
Refresh(p, token) ==
    /\ Accept(p)
    /\ IF ~refreshTokenSchema(token)
       THEN Finish(p, Request("refresh", NoEmail, <<>>, token),
                   handleError("refresh", ZodError))
       ELSE IF ~RefreshTokenVerifies(token)
       THEN Finish(p, Request("refresh", NoEmail, <<>>, token),
                   handleError("refresh", UnauthorizedError("Refresh token invalido")))
       ELSE IF ~StoredTokenMatches(findRefreshToken(token), JwtPayload(token).userId)
       THEN Finish(p, Request("refresh", NoEmail, <<>>, token),
                   handleError("refresh", UnauthorizedError("Refresh token invalido")))
       ELSE Goto(p, [Idle EXCEPT !.pc = "refresh_findUserById", !.token = token,
                                 !.decoded = JwtPayload(token).userId])
    /\ UNCHANGED <<unfinished, server, jwtSecret, jwtRefreshSecret, now, users, refreshTokens,
                   issued, revoked>>

\* the end of refreshToken as it would be if a refresh token were good for one
\* exchange: the row is deleted as the access token is returned
RefreshFindUserByIdRotating(p) ==
    /\ req[p].pc = "refresh_findUserById"
    /\ LET user == findUserById(req[p].decoded)
       IN IF user = NoUser
          THEN /\ Finish(p, RequestOf("refresh", p),
                         handleError("refresh", UnauthorizedError("Usuario no encontrado")))
               /\ UNCHANGED refreshTokens
          ELSE /\ Finish(p, RequestOf("refresh", p),
                         ReplyOk("refresh", 200, "Token refrescado exitosamente",
                                 NoUserResponse,
                                 [accessToken |-> generateAccessToken(user.id, user.role),
                                  refreshToken |-> req[p].token]))
               /\ refreshTokens' = deleteRefreshToken(req[p].token)
    /\ UNCHANGED <<unfinished, server, jwtSecret, jwtRefreshSecret, now, users, calls, issued,
                   revoked>>

\* AuthService.refreshToken: await findUserById, the throw on no user,
\* generateAccessToken, then the 200 response with the same refresh token
RefreshFindUserById(p) ==
    /\ req[p].pc = "refresh_findUserById"
    /\ LET user == findUserById(req[p].decoded)
       IN IF user = NoUser
          THEN Finish(p, RequestOf("refresh", p),
                      handleError("refresh", UnauthorizedError("Usuario no encontrado")))
          ELSE Finish(p, RequestOf("refresh", p),
                      ReplyOk("refresh", 200, "Token refrescado exitosamente",
                              NoUserResponse,
                              [accessToken |-> generateAccessToken(user.id, user.role),
                               refreshToken |-> req[p].token]))
    /\ UNCHANGED <<unfinished, server, jwtSecret, jwtRefreshSecret, now, users, refreshTokens,
                   calls, issued, revoked>>

\* ------------------------------------------------------------------- logout

\* AuthController.logout: refreshTokenSchema.parse; AuthService.logout: await
\* deleteRefreshToken, then the 200 response
Logout(p, token) ==
    /\ Accept(p)
    /\ IF ~refreshTokenSchema(token)
       THEN /\ Finish(p, Request("logout", NoEmail, <<>>, token),
                       handleError("logout", ZodError))
            /\ UNCHANGED <<refreshTokens, revoked>>
       ELSE /\ refreshTokens' = deleteRefreshToken(token)
            /\ revoked' = IF TokenTaken(token) THEN revoked \cup {token} ELSE revoked
            /\ Finish(p, Request("logout", NoEmail, <<>>, token),
                      ReplyOk("logout", 200, "Logout exitoso", NoUserResponse, NoTokens))
    /\ UNCHANGED <<unfinished, server, jwtSecret, jwtRefreshSecret, now, users, issued>>

\* ------------------------------------------------------------------ profile

\* GET /profile: the preHandler verifyToken; AuthController.getProfile: the 401
\* without a userId, and AuthService.getProfile up to its await findUserById
Profile(p, header) ==
    /\ Accept(p)
    /\ LET hook == verifyToken(header)
       IN /\ requestUser' = hook.user
          /\ last' = HeaderRequest("profile", header)
          /\ out' = IF hook.reply # NoReply
                    THEN [hook.reply EXCEPT !.op = "profile"]
                    ELSE IF hook.user.userId = 0
                    THEN [HookReply(401, "Token de acceso requerido")
                             EXCEPT !.op = "profile"]
                    ELSE NoReply
          /\ req' = IF hook.reply # NoReply \/ hook.user.userId = 0
                    THEN req
                    ELSE [req EXCEPT ![p] =
                             [Idle EXCEPT !.pc = "profile_findUserById",
                                          !.decoded = hook.user.userId]]
    /\ UNCHANGED <<unfinished, server, jwtSecret, jwtRefreshSecret, now, users, refreshTokens,
                   issued, revoked>>

\* AuthService.getProfile: await findUserById, the throw on no user, then the
\* 200 response with the user
ProfileFindUserById(p) ==
    /\ req[p].pc = "profile_findUserById"
    /\ LET user == findUserById(req[p].decoded)
       IN IF user = NoUser
          THEN Finish(p, RequestOf("profile", p),
                      handleError("profile", UnauthorizedError("Usuario no encontrado")))
          ELSE Finish(p, RequestOf("profile", p),
                      ReplyOk("profile", 200, "Perfil obtenido exitosamente",
                              formatUserResponse(user), NoTokens))
    /\ UNCHANGED <<unfinished, server, jwtSecret, jwtRefreshSecret, now, users, refreshTokens,
                   calls, issued, revoked>>

\* -------------------------------------------------------------------- admin

\* GET /admin/users: the preHandlers verifyToken and verifyAdmin in the order
\* they were added, a hook that sent a response ending the request, and then
\* the handler, whose body {message} has no success field
Admin(p, header) ==
    /\ Accept(p)
    /\ LET hook == verifyToken(header)
       IN /\ requestUser' = hook.user
          /\ out' = IF hook.reply # NoReply
                    THEN [hook.reply EXCEPT !.op = "admin"]
                    ELSE IF verifyAdmin(hook.user) # NoReply
                    THEN [verifyAdmin(hook.user) EXCEPT !.op = "admin"]
                    ELSE [HookReply(200, "Lista de usuarios - Solo admins")
                             EXCEPT !.op = "admin"]
    /\ last' = HeaderRequest("admin", header)
    /\ UNCHANGED <<unfinished, server, jwtSecret, jwtRefreshSecret, now, users, refreshTokens, req,
                   issued, revoked>>

\* ------------------------------------------------------------- optionalAuth

\* a request to a route with the preHandler optionalAuth: the hook runs
OptionalAuth(p, header) ==
    /\ Accept(p)
    /\ requestUser' = optionalAuth(header).user
    /\ out' = [optionalAuth(header).reply EXCEPT !.op = "optionalAuth"]
    /\ last' = HeaderRequest("optionalAuth", header)
    /\ UNCHANGED <<unfinished, server, jwtSecret, jwtRefreshSecret, now, users, refreshTokens, req,
                   issued, revoked>>

\* ------------------------------------------------------------------ gateway

\* the gateway's POST /users: prisma.user.create({data: {email, password}}) on
\* the body as it came, whose row (role by the column's default) is the
\* response; an error of create goes to Fastify's default handler
GatewayCreateUser(email, password) ==
    /\ server = "listening"
    /\ calls < MaxCalls
    /\ calls' = calls + 1
    /\ LET user == [id |-> NextUserId, email |-> email,
                    password |-> PlainPassword(password), role |-> "USER",
                    createdAt |-> now]
       IN IF EmailTaken(email)
          THEN /\ users' = users
               /\ out' = [HookReply(500, "Internal Server Error") EXCEPT !.op = "users"]
          ELSE /\ users' = users \cup {user}
               /\ out' = [op |-> "users", status |-> 200, success |-> FALSE,
                          message |-> "", code |-> "", user |-> user,
                          tokens |-> NoTokens]
    /\ last' = Request("users", email, password, EmptyToken)
    /\ requestUser' = NoIdentity
    /\ UNCHANGED <<unfinished, server, jwtSecret, jwtRefreshSecret, now, refreshTokens, req,
                   issued, revoked>>

\* -------------------------------------------------------------------- clock

\* the clock moves on to a later instant
Tick(t) ==
    /\ t > now
    /\ now' = t
    /\ out' = NoReply
    /\ last' = NoRequest
    /\ requestUser' = NoIdentity
    /\ UNCHANGED <<unfinished, server, jwtSecret, jwtRefreshSecret, users, refreshTokens, req, calls,
                   issued, revoked>>

\* ------------------------------------------------------------ specification

\* the service has started with its two secrets set, the tables are empty, no
\* request is in flight
Init ==
    /\ server = "listening"
    /\ jwtSecret = "access-secret"
    /\ jwtRefreshSecret = "refresh-secret"
    /\ now = 0
    /\ users = {}
    /\ refreshTokens = {}
    /\ req = [p \in Procs |-> Idle]
    /\ calls = 0
    /\ out = NoReply
    /\ last = NoRequest
    /\ issued = {}
    /\ revoked = {}
    /\ requestUser = NoIdentity
    /\ unfinished = {}

\* the values JWT_SECRET and JWT_REFRESH_SECRET may have in the environment
Environments ==
    {[JWT_SECRET |-> a, JWT_REFRESH_SECRET |-> r] :
        a \in {"", "access-secret"}, r \in {"", "refresh-secret", "access-secret"}}

\* missingEnvVars as it would be if the list had the access-token secret only
missingEnvVarsOfAccessOnly(env) == {name \in {"JWT_SECRET"} : env[name] = ""}

\* server.ts: the required variables that are not set (an empty value counts as
\* not set); the service starts only if there is none
missingEnvVars(env) == {name \in DOMAIN env : env[name] = ""}

\* the service has started with any environment server.ts lets it start with
InitAnyConfig ==
    /\ server = "listening"
    /\ \E env \in Environments :
          /\ missingEnvVars(env) = {}
          /\ jwtSecret = env.JWT_SECRET
          /\ jwtRefreshSecret = env.JWT_REFRESH_SECRET
    /\ now = 0
    /\ users = {}
    /\ refreshTokens = {}
    /\ req = [p \in Procs |-> Idle]
    /\ calls = 0
    /\ out = NoReply
    /\ last = NoRequest
    /\ issued = {}
    /\ revoked = {}
    /\ requestUser = NoIdentity
    /\ unfinished = {}

\* the process was launched with any environment: config has read the
\* secrets, set or not, and server.ts has yet to run its check
InitStartup ==
    /\ server = "starting"
    /\ \E env \in Environments :
          /\ jwtSecret = env.JWT_SECRET
          /\ jwtRefreshSecret = env.JWT_REFRESH_SECRET
    /\ now = 0
    /\ users = {}
    /\ refreshTokens = {}
    /\ req = [p \in Procs |-> Idle]
    /\ calls = 0
    /\ out = NoReply
    /\ last = NoRequest
    /\ issued = {}
    /\ revoked = {}
    /\ requestUser = NoIdentity
    /\ unfinished = {}

\* server.ts: process.exit(1) if a required variable is missing, else
\* startServer, which calls server.listen
StartServer ==
    /\ server = "starting"
    /\ server' =
          IF missingEnvVars([JWT_SECRET |-> jwtSecret,
                             JWT_REFRESH_SECRET |-> jwtRefreshSecret]) # {}
          THEN "exited"
          ELSE "listening"
    /\ UNCHANGED <<jwtSecret, jwtRefreshSecret, now, users, refreshTokens, req,
                   calls, out, last, issued, revoked, requestUser, unfinished>>

Next ==
    \/ \E p \in Procs, email \in Emails, password \in Passwords :
          Register(p, email, password)
    \/ \E p \in Procs : RegisterHash(p)
    \/ \E p \in Procs : RegisterCreateUser(p)
    \/ \E p \in Procs : RegisterCreateRefreshToken(p)
    \/ \E p \in Procs, email \in Emails, password \in Passwords :
          Login(p, email, password)
    \/ \E p \in Procs : LoginCompare(p)
    \/ \E p \in Procs : LoginCreateRefreshToken(p)
    \/ \E p \in Procs, token \in TokenInputs : Refresh(p, token)
    \/ \E p \in Procs : RefreshFindUserById(p)
    \/ \E p \in Procs, token \in TokenInputs : Logout(p, token)
    \/ \E p \in Procs, header \in HeaderInputs : Profile(p, header)
    \/ \E p \in Procs : ProfileFindUserById(p)
    \/ \E p \in Procs, header \in HeaderInputs : Admin(p, header)
    \/ \E p \in Procs, header \in HeaderInputs : OptionalAuth(p, header)
    \/ \E t \in Instants : Tick(t)

Spec == Init /\ [][Next]_vars

SpecAnyConfig == InitAnyConfig /\ [][Next]_vars

\* the auth service and the gateway's POST /users on one database
NextWithGateway ==
    \/ \E email \in Emails, password \in Passwords : GatewayCreateUser(email, password)
    \/ Next

SpecWithGateway == Init /\ [][NextWithGateway]_vars

\* the auth service on a database that may fail the insert of a refresh token
NextStoreFails ==
    \/ \E p \in Procs : RegisterCreateRefreshTokenFails(p)
    \/ Next

SpecStoreFails == Init /\ [][NextStoreFails]_vars

\* the service from the launch of its process
NextStartup ==
    \/ StartServer
    \/ Next

SpecStartup == InitStartup /\ [][NextStartup]_vars

\* ==================================================================== claims

\* a row of the User table has the email
Registered(email) == \E u \in users : u.email = email

\* a row of the RefreshToken table has the token
Stored(token) == \E r \in refreshTokens : r.token = token

\* the body of handleError's response to an AuthError
ErrorReply(op, status, code, message) ==
    [op |-> op, status |-> status, success |-> FALSE, message |-> message,
     code |-> code, user |-> NoUserResponse, tokens |-> NoTokens]

\* -------------------------------------------------------------------- C1

C2_EmailUnique ==
    \A u1 \in users, u2 \in users : u1.email = u2.email => u1 = u2

\* two register requests for one email both passed emailExists; one created the
\* User, and the createUser of the other was rejected by the store
C2_RaceLost ==
    /\ last.op = "register"
    /\ out.status = 500
    /\ Cardinality({u \in users : u.email = last.email}) = 1

\* -------------------------------------------------------------------- C3

DuplicateEmailReply ==
    ErrorReply("register", 400, "VALIDATION_ERROR", "El email ya esta registrado")

InvalidCredentialsReply ==
    ErrorReply("login", 401, "UNAUTHORIZED", "Credenciales invalidas")

\* C4: a login request with an unknown email and a login request with a known
\* email and a wrong password get the same response (status 401, code
\* UNAUTHORIZED, the same message, no user, no tokens), and neither changes the
\* tables or issues a token.
C4_SameRejection ==
    [][\A p \in Procs :
          /\ \A email \in Emails, password \in Passwords :
                (/\ Login(p, email, password)
                 /\ loginSchema(email, password)
                 /\ ~Registered(email))
                => /\ out' = InvalidCredentialsReply
                   /\ req'[p] = Idle
                   /\ UNCHANGED <<users, refreshTokens, issued>>
          /\ (/\ req[p].pc = "login_compare"
              /\ req'[p] # req[p]
              /\ req[p].user.password.digest # <<"H", req[p].password>>)
             => /\ out' = InvalidCredentialsReply
                /\ req'[p] = Idle
                /\ UNCHANGED <<users, refreshTokens, issued>>]_vars

\* a login request with a registered email and a wrong password was rejected
C4_WrongPasswordRejected ==
    /\ last.op = "login"
    /\ out = InvalidCredentialsReply
    /\ \E u \in users :
          u.email = last.email /\ u.password.digest # <<"H", last.password>>

\* -------------------------------------------------------------------- C5

\* the password is the one the User with the email registered
CorrectPassword(email, password) ==
    \E u \in users : u.email = email /\ u.password.digest = <<"H", password>>

\* C5: a login request with the email and the correct password of a registered
\* user is answered 200, with an access token that verifies to the user's
\* {userId, role} and a refresh token that is stored with the user as its owner.
C5_LoginSucceeds ==
    (last.op = "login" /\ CorrectPassword(last.email, last.password)) =>
        /\ out.status = 200
        /\ \E u \in users :
              /\ u.email = last.email
              /\ out.user.id = u.id
              /\ JwtVerifies(out.tokens.accessToken, jwtSecret,
                             out.tokens.accessToken.iat)
              /\ JwtPayload(out.tokens.accessToken) = [userId |-> u.id, role |-> u.role]
              /\ findRefreshToken(out.tokens.refreshToken) = {u.id}

\* -------------------------------------------------------------------- C6

C7_NewAccessToken ==
    (last.op = "refresh" /\ out.status = 200) =>
        /\ out.tokens.refreshToken = last.token
        /\ \E u \in users :
              JwtPayload(out.tokens.accessToken) = [userId |-> u.id, role |-> u.role]
        /\ \A t \in issued :
              t.refreshToken = last.token => t.accessToken # out.tokens.accessToken

\* -------------------------------------------------------------------- C8-C9

\* refreshToken, called in this state with this token and run to its end, returns
\* tokens: the token verifies, it is stored with the owner of its claims, and the
\* owner exists
RefreshAccepts(token) ==
    /\ refreshTokenSchema(token)
    /\ RefreshTokenVerifies(token)
    /\ StoredTokenMatches(findRefreshToken(token), JwtPayload(token).userId)
    /\ findUserById(JwtPayload(token).userId) # NoUser

\* a refresh request gets past its checks exactly when RefreshAccepts holds
RefreshAcceptsIsRefresh ==
    [][\A p \in Procs, token \in TokenInputs :
          Refresh(p, token) =>
              (req'[p].pc = "refresh_findUserById" <=> RefreshAccepts(token))]_vars

\* C8: a logout request with a non-empty token is answered 200 whether the token
\* is stored or not; it leaves no row with the token; when no row had the token
\* it leaves the table as it was (so a second logout changes nothing); and from
\* then on refreshToken does not accept a token a logout has deleted.
C8_LogoutIdempotent ==
    [][/\ \A p \in Procs, token \in TokenInputs :
             (Logout(p, token) /\ token.str # "")
             => /\ out'.status = 200
                /\ out'.success
                /\ \A r \in refreshTokens' : r.token # token
                /\ \A r \in refreshTokens : r.token # token => r \in refreshTokens'
                /\ (~Stored(token) => refreshTokens' = refreshTokens)
                /\ users' = users
       /\ \A token \in revoked' : ~RefreshAccepts(token)']_vars

\* the part of C8 that is about logout alone: the 200 and the table after it
C8_LogoutAlone ==
    [][\A p \in Procs, token \in TokenInputs :
          (Logout(p, token) /\ token.str # "")
          => /\ out'.status = 200
             /\ out'.success
             /\ \A r \in refreshTokens' : r.token # token
             /\ \A r \in refreshTokens : r.token # token => r \in refreshTokens'
             /\ (~Stored(token) => refreshTokens' = refreshTokens)
             /\ users' = users]_vars

\* C9: refreshToken accepts no token that a logout has deleted from the table, and
\* no token whose expiry has passed.
C9_NoReturnToActive ==
    \A token \in revoked \cup {t.refreshToken : t \in issued} :
        (token \in revoked \/ now >= token.exp) => ~RefreshAccepts(token)

\* the part of C9 that is about expiry alone
C9_ExpiredStaysExpired ==
    \A t \in issued : now >= t.refreshToken.exp => ~RefreshAccepts(t.refreshToken)

\* -------------------------------------------------------------------- C10

InvalidRefreshReply ==
    ErrorReply("refresh", 401, "UNAUTHORIZED", "Refresh token invalido")

\* C10: a refresh request whose token is a JWT past its expiry is answered with
\* UnauthorizedError('Refresh token invalido'), stored or not, and the step
\* changes neither table; the passing of time removes no row.
C10_ExpiredRejected ==
    [][/\ \A p \in Procs, token \in TokenInputs :
             (Refresh(p, token) /\ token.str = "jwt" /\ now >= token.exp)
             => /\ out' = InvalidRefreshReply
                /\ req'[p] = Idle
                /\ UNCHANGED <<users, refreshTokens>>
       /\ now' # now => UNCHANGED <<users, refreshTokens>>]_vars

\* a refresh request was rejected whose token is stored, has the server's
\* signature, and is 7 days old
C10_StoredExpiredRejected ==
    /\ last.op = "refresh"
    /\ out = InvalidRefreshReply
    /\ Stored(last.token)
    /\ last.token.sig = jwtRefreshSecret
    /\ now >= last.token.iat + RefreshTTL

\* -------------------------------------------------------------------- C11

\* the token is an access token with the server's signature that has not expired
ValidAccessToken(token) ==
    token.str = "jwt" /\ token.sig = jwtSecret /\ now < token.exp

\* the header is exactly "Bearer <token>" for a valid access token
BearerOfValidToken(header) ==
    /\ header.present
    /\ Len(header.words) = 2
    /\ header.words[1] = Bearer
    /\ ValidAccessToken(header.words[2])

\* C11: verifyToken lets a request to /profile or /admin/users through exactly
\* when its Authorization header is "Bearer <token>" with a valid access token,
\* and then request.user is the token's {userId, role}; every other request is
\* answered 401 with no identity attached.
C11_RequireAuth ==
    [][\A p \in Procs, header \in HeaderInputs :
          /\ Admin(p, header) =>
                IF BearerOfValidToken(header)
                THEN /\ out'.status # 401
                     /\ requestUser' = JwtPayload(header.words[2])
                ELSE /\ out'.status = 401
                     /\ requestUser' = NoIdentity
          /\ Profile(p, header) =>
                IF BearerOfValidToken(header)
                THEN /\ req'[p].pc = "profile_findUserById"
                     /\ requestUser' = JwtPayload(header.words[2])
                ELSE /\ out'.status = 401
                     /\ req'[p] = Idle
                     /\ requestUser' = NoIdentity]_vars

\* the request the step's hooks ran on carries a header
HooksRanOn(request, op) == request.op = op /\ "header" \in DOMAIN request

\* the token verifyToken is meant to take from the header: its second word
CarriedToken(header) ==
    IF header.present /\ Len(header.words) >= 2 THEN header.words[2] ELSE EmptyToken

\* what verifyToken does decide by: the second word of the header, whatever the
\* first word is and whatever follows the second
C11_SecondWordDecides ==
    [][HooksRanOn(last', "admin") =>
          IF ValidAccessToken(CarriedToken(last'.header))
          THEN /\ out'.status # 401
               /\ requestUser' = JwtPayload(CarriedToken(last'.header))
          ELSE /\ out'.status = 401
               /\ requestUser' = NoIdentity]_vars

\* -------------------------------------------------------------------- C12

\* C12: a request to /admin/users without a valid access token in its header is
\* answered 401, one with a valid access token of a role other than ADMIN is
\* answered 403, and the handler's 200 goes out to neither; a request to
\* /profile without a valid access token is answered 401 and getProfile does
\* not get to its findUserById, which it reaches only with the userId of a
\* valid access token.
C12_HooksGuardHandlers ==
    [][/\ HooksRanOn(last', "admin") =>
             LET token == CarriedToken(last'.header)
             IN /\ ~ValidAccessToken(token) => out'.status = 401
                /\ (ValidAccessToken(token) /\ token.role # "ADMIN")
                   => out'.status = 403
                /\ out'.status = 200
                   => ValidAccessToken(token) /\ token.role = "ADMIN"
                /\ req' = req
       /\ HooksRanOn(last', "profile") =>
             LET token == CarriedToken(last'.header)
             IN /\ ~ValidAccessToken(token)
                   => out'.status = 401 /\ req' = req
                /\ req' # req
                   => /\ ValidAccessToken(token)
                      /\ \E p \in Procs :
                            /\ req'[p].pc = "profile_findUserById"
                            /\ req'[p].decoded = token.userId
       /\ \A p \in Procs :
             (req[p].pc = "idle" /\ req'[p].pc = "profile_findUserById")
             => HooksRanOn(last', "profile")]_vars

\* a request to /admin/users with the valid access token of a USER was answered 403
C12_UserForbidden ==
    /\ out.op = "admin"
    /\ out.status = 403
    /\ requestUser.role = "USER"
    /\ last.header.words[1] = Bearer
    /\ ValidAccessToken(last.header.words[2])

\* -------------------------------------------------------------------- C13

\* C13: optionalAuth sends no response, whatever the header, and changes
\* nothing but request.user, which is the {userId, role} of the token the
\* header carries if that token verifies, and is not set otherwise.
C13_OptionalNeverBlocks ==
    [][HooksRanOn(last', "optionalAuth") =>
          /\ out'.status = 0
          /\ ~out'.success
          /\ out'.message = ""
          /\ UNCHANGED <<users, refreshTokens, req>>
          /\ IF ValidAccessToken(CarriedToken(last'.header))
             THEN requestUser' = JwtPayload(CarriedToken(last'.header))
             ELSE requestUser' = NoIdentity]_vars

\* optionalAuth ran on a request whose header carries an expired access token
\* of the server, and let it go on with no identity
C13_ExpiredIgnored ==
    /\ last.op = "optionalAuth"
    /\ out.status = 0
    /\ requestUser = NoIdentity
    /\ Len(last.header.words) = 2
    /\ last.header.words[2].sig = jwtSecret
    /\ now >= last.header.words[2].exp

\* optionalAuth ran on a request with a valid access token and attached its identity
C13_Attached ==
    /\ last.op = "optionalAuth"
    /\ out.status = 0
    /\ requestUser.role = "USER"

\* -------------------------------------------------------------------- C14

\* C14: every User has role USER and no step changes or removes a User row, so
\* a role never changes; every access token issued, by register, login or
\* refresh, has role USER, and no hook attaches the role ADMIN.
C14_NoEscalation ==
    [][/\ \A u \in users : u \in users'
       /\ \A u \in users' : u.role = "USER"
       /\ \A t \in issued' : t.accessToken.role = "USER"
       /\ out'.tokens.accessToken.role # "ADMIN"
       /\ requestUser'.role # "ADMIN"]_vars

\* a registered user read the profile, and the response shows role USER
C14_ProfileOfUser ==
    /\ out.op = "profile"
    /\ out.status = 200
    /\ out.user.role = "USER"
    /\ users # {}

\* -------------------------------------------------------------------- C15

\* C15: with whatever secrets the service started, verifyAccessToken and
\* verifyToken accept no refresh token that was issued, and refreshToken accepts
\* no access token that was issued.
C15_TokenTypesIsolated ==
    \A t \in issued :
        /\ ~verifyAccessToken(t.refreshToken)
        /\ verifyToken(Header(<<Bearer, t.refreshToken>>)).reply # NoReply
        /\ ~RefreshAccepts(t.accessToken)

\* the half of C15 that holds with any secrets: refreshToken accepts no access
\* token, which is never a row of the RefreshToken table
C15_AccessNeverRefreshes ==
    \A t \in issued : ~RefreshAccepts(t.accessToken)

\* -------------------------------------------------------------------- C16

\* C16: a register request whose body fails the schema is answered 400, and one
\* with a valid body whose email is registered is answered 409.
C16_DuplicateIs409 ==
    [][\A p \in Procs, email \in Emails, password \in Passwords :
          Register(p, email, password) =>
              /\ ~registerSchema(email, password) => out'.status = 400
              /\ (registerSchema(email, password) /\ Registered(email))
                 => out'.status = 409]_vars

\* -------------------------------------------------------------------- C17

\* C17: a register call that passed emailExists and whose createUser finds the
\* email taken by then is answered with the duplicate-email error of a
\* sequential duplicate registration, and not with a 500.
C17_RaceLoserGetsDuplicateError ==
    [][\A p \in Procs :
          (/\ req[p].pc = "register_createUser"
           /\ req'[p] # req[p]
           /\ Registered(req[p].email))
          => /\ out' = DuplicateEmailReply
             /\ out'.status # 500]_vars

\* -------------------------------------------------------------------- C18

\* C18: the refresh token a register or login returns with its 201 or 200 is
\* none of the refresh tokens issued before, and no two rows of the
\* RefreshToken table have the same token.
C18_RefreshTokensUnique ==
    [][/\ (out'.op \in {"register", "login"} /\ out'.status \in {200, 201})
          => \A t \in issued : t.refreshToken # out'.tokens.refreshToken
       /\ \A r1 \in refreshTokens', r2 \in refreshTokens' :
             r1.token = r2.token => r1 = r2]_vars

\* the half of C18 that the store's constraint gives: no two rows with one token
C18_NoTwoRows ==
    \A r1 \in refreshTokens, r2 \in refreshTokens : r1.token = r2.token => r1 = r2

\* -------------------------------------------------------------------- C19

\* C19: a step that is not a logout removes no row of the RefreshToken table,
\* and every stored token that refreshToken accepted before a step of a login
\* or refresh it accepts after it; a logout of token t removes the rows with
\* token t and no other row, and every other stored token that refreshToken
\* accepted is still accepted; no step removes a User.
C19_NoSingleSession ==
    [][/\ out'.op # "logout" => \A r \in refreshTokens : r \in refreshTokens'
       /\ (out'.op = "logout" /\ out'.status = 200)
          => refreshTokens' = {r \in refreshTokens : r.token # last'.token}
       /\ \A r \in refreshTokens :
             (r \in refreshTokens' /\ now' = now /\ RefreshAccepts(r.token))
             => RefreshAccepts(r.token)'
       /\ \A u \in users : u \in users']_vars

\* a user with two stored refresh tokens logged out with one of them, and the
\* other is still stored and accepted
C19_OtherSessionLives ==
    /\ last.op = "logout"
    /\ out.status = 200
    /\ last.token \in revoked
    /\ ~Stored(last.token)
    /\ \E r \in refreshTokens :
          /\ r.userId = last.token.userId
          /\ r.token # last.token
          /\ RefreshAccepts(r.token)

\* -------------------------------------------------------------------- C20

\* C20: of a token pair issued at time i for a user, the access token makes
\* verifyAccessToken return the user's {userId, role} at every time before
\* i + 3600 and throw UnauthorizedError('Token invalido') from i + 3600 on, and
\* the refresh token passes jwt.verify exactly before i + 604800.
C20_ExpiryWindows ==
    \A t \in issued :
        /\ t.accessToken.iat <= now
        /\ t.refreshToken.iat = t.accessToken.iat
        /\ now < t.accessToken.iat + 3600
           => /\ verifyAccessTokenOutcome(t.accessToken) =
                    [userId |-> t.refreshToken.userId, role |-> "USER"]
              /\ \E u \in users :
                    u.id = t.accessToken.userId /\ u.role = t.accessToken.role
        /\ now >= t.accessToken.iat + 3600
           => verifyAccessTokenOutcome(t.accessToken) =
                 [cls |-> "AuthError", code |-> "UNAUTHORIZED",
                  message |-> "Token invalido", statusCode |-> 401]
        /\ RefreshTokenVerifies(t.refreshToken) <=> now < t.refreshToken.iat + 604800

\* the clock stands at the very expiry of an access token, which no longer
\* verifies, while the refresh token issued with it still does
C20_AtExpiry ==
    \E t \in issued :
        /\ now = t.accessToken.iat + 3600
        /\ ~verifyAccessToken(t.accessToken)
        /\ RefreshTokenVerifies(t.refreshToken)

\* the clock stands one second before the expiry of a refresh token
C20_LastSecond ==
    \E t \in issued :
        /\ now = t.refreshToken.iat + 604800 - 1
        /\ RefreshTokenVerifies(t.refreshToken)

\* -------------------------------------------------------------------- C21

\* C21: while a signing secret is not set, the server is not listening, no
\* request has been taken and no token has been signed; and a process that
\* exited stays exited.
C21_NoStartWithoutSecrets ==
    [][/\ (jwtSecret' = "" \/ jwtRefreshSecret' = "")
          => /\ server' # "listening"
             /\ calls' = 0
             /\ out' = NoReply
             /\ issued' = {}
             /\ \A p \in Procs : req'[p] = Idle
       /\ server = "exited" => server' = "exited"
       /\ UNCHANGED <<jwtSecret, jwtRefreshSecret>>]_vars

\* the process was launched with the access-token secret set and the
\* refresh-token secret missing, and has exited
C21_ExitedOnMissingRefreshSecret ==
    /\ server = "exited"
    /\ jwtSecret # ""
    /\ jwtRefreshSecret = ""

\* -------------------------------------------------------------------- C22

\* C22: the password column of every User row holds a bcrypt hash, and holds
\* the characters of no password a request may carry.
C22_PasswordsHashed ==
    \A u \in users :
        /\ u.password.alg = "bcrypt"
        /\ u.password.digest[1] = "H"
        /\ \A password \in Passwords : u.password.digest # <<"", password>>

\* -------------------------------------------------------------------- C23

UserNotFoundReply ==
    ErrorReply("profile", 401, "UNAUTHORIZED", "Usuario no encontrado")

RefreshStep ==
    \/ out'.op = "refresh"
    \/ \E p \in Procs :
          req[p].pc # "refresh_findUserById" /\ req'[p].pc = "refresh_findUserById"

\* C24: no step of a refresh request, passing or failing, changes the User
\* table or the RefreshToken table, and after a 200 the token that was
\* exchanged is accepted again as long as it is stored and has not expired.
C24_RefreshReadsOnly ==
    [][RefreshStep =>
          /\ UNCHANGED <<users, refreshTokens>>
          /\ \A r \in refreshTokens :
                (/\ out'.op = "refresh"
                 /\ out'.status = 200
                 /\ r.token = last'.token
                 /\ now < r.token.exp)
                => RefreshAccepts(r.token)']_vars

\* a refresh token was exchanged for an access token while a second exchange
\* of the same token has passed its checks, and it would be accepted once more
C24_ExchangedTwice ==
    /\ out.op = "refresh"
    /\ out.status = 200
    /\ RefreshAccepts(last.token)
    /\ \E p \in Procs :
          req[p].pc = "refresh_findUserById" /\ req[p].token = last.token

\* -------------------------------------------------------------------- C25

\* C25: a refresh request gets past its lookup only with a token that is stored
\* at the lookup, and one that did is answered 200 whatever a logout has
\* deleted since; a refresh request whose lookup comes after the logout's
\* delete is answered 401; a logout leaves no row with its token, and no step
\* of a refresh request puts a row back.
C25_LookupBeforeDelete ==
    [][/\ \A p \in Procs :
             /\ (req[p].pc = "idle" /\ req'[p].pc = "refresh_findUserById")
                => \E r \in refreshTokens : r.token = req'[p].token
             /\ (req[p].pc = "refresh_findUserById" /\ req'[p] # req[p])
                => out'.op = "refresh" /\ out'.status = 200
       /\ (/\ out'.op = "refresh"
           /\ req' = req
           /\ last'.token \in revoked
           /\ \A r \in refreshTokens : r.token # last'.token)
          => out'.status = 401
       /\ (out'.op = "logout" /\ out'.status = 200)
          => \A r \in refreshTokens' : r.token # last'.token
       /\ RefreshStep => refreshTokens' = refreshTokens]_vars

\* a refresh request was answered 200 after a logout of its token had
\* completed: both calls have finished and the token is not stored
C25_RefreshedAfterLogout ==
    /\ out.op = "refresh"
    /\ out.status = 200
    /\ last.token \in revoked
    /\ ~Stored(last.token)
    /\ \A p \in Procs : req[p].pc = "idle"

\* -------------------------------------------------------------------- C26

\* C26: the owner of every row of the RefreshToken table is the userId of the
\* row's token and the id of a User; a refresh request that has passed its
\* lookup finds its user, and no refresh request is answered that the user was
\* not found.
C26_OwnerIsClaimedUser ==
    /\ \A r \in refreshTokens :
          /\ r.userId = r.token.userId
          /\ \E u \in users : u.id = r.userId
          /\ StoredTokenMatches(findRefreshToken(r.token), JwtPayload(r.token).userId)
    /\ \A p \in Procs :
          req[p].pc = "refresh_findUserById" => findUserById(req[p].decoded) # NoUser
    /\ out.op = "refresh" => out.message # "Usuario no encontrado"

\* a refresh request with a stored token was answered 200: the row's owner is
\* the token's userId, and the user was found
C26_OwnerFound ==
    /\ last.op = "refresh"
    /\ out.status = 200
    /\ findRefreshToken(last.token) = {last.token.userId}
    /\ findUserById(last.token.userId) # NoUser

\* -------------------------------------------------------------------- C27

\* C27: an access token that register or login issued with a refresh token
\* that a logout has deleted since is accepted by verifyAccessToken, and by
\* verifyToken with the identity of its claims, as long as less than 3600
\* seconds have passed since it was issued; so is the access token of a refresh
\* response, whether or not the refresh token is still stored.
C27_AccessTokenOutlivesLogout ==
    /\ \A t \in issued :
          (/\ t.refreshToken \in revoked
           /\ ~Stored(t.refreshToken)
           /\ now < t.accessToken.iat + 3600)
          => /\ verifyAccessToken(t.accessToken)
             /\ verifyToken(Header(<<Bearer, t.accessToken>>)) =
                   [reply |-> NoReply,
                    user |-> [userId |-> t.accessToken.userId,
                              role |-> t.accessToken.role]]
    /\ (out.op = "refresh" /\ out.status = 200
           /\ now < out.tokens.accessToken.iat + 3600)
       => verifyAccessToken(out.tokens.accessToken)

\* a request to /profile with the access token of a session that was logged
\* out got past verifyToken
C27_ProfileAfterLogout ==
    /\ HooksRanOn(last, "profile")
    /\ out = NoReply
    /\ \E t \in issued :
          /\ last.header = Header(<<Bearer, t.accessToken>>)
          /\ t.refreshToken \in revoked
          /\ ~Stored(t.refreshToken)
          /\ requestUser.userId = t.accessToken.userId

\* -------------------------------------------------------------------- C28

\* a register whose createRefreshToken failed left the User row of this email
Unfinished(email) == \E u \in users : u.id \in unfinished /\ u.email = email

\* C28: when createRefreshToken fails in a register, the response is an error,
\* the User row stays and the register has stored no refresh token for it (a
\* row with the user as owner holds a token that a login handed out); from then on a
\* register request with a valid body and that email is answered with the
\* duplicate-email error, and a login request with that email and the
\* password of the row is answered 200.
C28_RegisterNotAtomic ==
    [][/\ unfinished' # unfinished
          => /\ out'.op = "register"
             /\ ~out'.success
             /\ out'.status = 500
             /\ refreshTokens' = refreshTokens
             /\ \A id \in unfinished' \ unfinished :
                   /\ \E u \in users' : u.id = id
                   /\ \A r \in refreshTokens' :
                         r.userId = id => \E t \in issued' : t.refreshToken = r.token
       /\ \A id \in unfinished : \E u \in users' : u.id = id
       /\ (/\ out'.op = "register"
           /\ req' = req
           /\ registerSchema(last'.email, last'.password)
           /\ Unfinished(last'.email))
          => out' = DuplicateEmailReply
       /\ (/\ out'.op = "login"
           /\ Unfinished(last'.email)
           /\ CorrectPassword(last'.email, last'.password))
          => out'.status = 200]_vars

\* the part of C28 that is about register: the row stays without a token, and
\* the email is taken
C28_UserStaysWithoutToken ==
    [][/\ unfinished' # unfinished
          => /\ out'.op = "register"
             /\ ~out'.success
             /\ out'.status = 500
             /\ refreshTokens' = refreshTokens
             /\ \A id \in unfinished' \ unfinished :
                   /\ \E u \in users' : u.id = id
                   /\ \A r \in refreshTokens' :
                         r.userId = id => \E t \in issued' : t.refreshToken = r.token
       /\ \A id \in unfinished : \E u \in users' : u.id = id
       /\ (/\ out'.op = "register"
           /\ req' = req
           /\ registerSchema(last'.email, last'.password)
           /\ Unfinished(last'.email))
          => out' = DuplicateEmailReply]_vars

\* a user whose register failed after createUser has logged in
C28_UnfinishedLoggedIn ==
    /\ out.op = "login"
    /\ out.status = 200
    /\ Unfinished(last.email)

====
